---- MODULE Spec2Model ----
(***************************************************************************)
(* Model of scripts/aggregate.py: the fold of CSV submission rows into a   *)
(* metrics snapshot (totals, averages, category tallies, daily trends).    *)
(*                                                                         *)
(* Strings are sequences of one-character strings, so that strip(), the    *)
(* filename regex, the f-string and float() are computed, not assumed.     *)
(* Python's None is the one-element sequence <<"None">>, whose element is  *)
(* not a character, hence different from every string.                     *)
(*                                                                         *)
(* A Python float is the record [hi, lo] standing for hi * 10^16 + lo      *)
(* with |lo| far below 10^16.  10^16 lies above 2^53, where the spacing of *)
(* IEEE-754 doubles is 2 or more, so additions there round (to nearest,    *)
(* ties to even) and float addition is not associative.                    *)
(***************************************************************************)
EXTENDS Integers, Sequences, FiniteSets, TLC

\* ------------------------------------------------------------------ bounds
MaxFiles == 2       \* files yielded by one glob("*.csv")
MaxRows == 2        \* data rows read in one run, over all files
MaxDirRows == 3     \* data rows of a directory that is aggregated twice

\* ------------------------------------------------------------ Python values
None == <<"None">>

\* bool(v) for a value that is None or a str
Truthy(v) == v # None /\ v # <<>>

Digits == {"0", "1", "2", "3", "4", "5", "6", "7", "8", "9"}

DigitVal(c) ==
  CASE c = "0" -> 0 [] c = "1" -> 1 [] c = "2" -> 2 [] c = "3" -> 3
    [] c = "4" -> 4 [] c = "5" -> 5 [] c = "6" -> 6 [] c = "7" -> 7
    [] c = "8" -> 8 [] c = "9" -> 9

\* ord(c) for the characters that occur in the model
Ord(c) ==
  CASE c = " " -> 32 [] c = "-" -> 45 [] c = "." -> 46 [] c = "/" -> 47
    [] c \in Digits -> 48 + DigitVal(c)
    [] c = "A" -> 65 [] c = "B" -> 66 [] c = "E" -> 69 [] c = "N" -> 78
    [] c = "_" -> 95
    [] c = "a" -> 97 [] c = "b" -> 98 [] c = "c" -> 99 [] c = "e" -> 101
    [] c = "n" -> 110 [] c = "o" -> 111 [] c = "s" -> 115 [] c = "t" -> 116
    [] c = "v" -> 118 [] c = "x" -> 120 [] c = "z" -> 122

\* str < str: lexicographic by code point
RECURSIVE StrLess(_, _)
StrLess(a, b) ==
  IF b = <<>> THEN FALSE
  ELSE IF a = <<>> THEN TRUE
  ELSE IF Ord(Head(a)) # Ord(Head(b)) THEN Ord(Head(a)) < Ord(Head(b))
  ELSE StrLess(Tail(a), Tail(b))

IsSpace(c) == c = " "

RECURSIVE lstrip(_)
lstrip(s) == IF s # <<>> /\ IsSpace(Head(s)) THEN lstrip(Tail(s)) ELSE s

RECURSIVE rstrip(_)
rstrip(s) ==
  IF s # <<>> /\ IsSpace(s[Len(s)]) THEN rstrip(SubSeq(s, 1, Len(s) - 1)) ELSE s

\* str.strip()
strip(s) == rstrip(lstrip(s))

\* ------------------------------------------------------------------ floats
Float(h, l) == [hi |-> h, lo |-> l]
F0 == Float(0, 0)

Abs(x) == IF x < 0 THEN 0 - x ELSE x

\* spacing of the doubles around H * 10^16 (H >= 1):
\* 2^53 <= 1e16 < 2^54 <= 2e16, 3e16 < 2^55 <= 4e16 .. 7e16 < 2^56 <= 8e16 ..
Ulp(H) ==
  IF H < 2 THEN 2 ELSE IF H < 4 THEN 4 ELSE IF H < 8 THEN 8
  ELSE IF H < 15 THEN 16 ELSE 32

\* x / u rounded to the nearest integer, ties to the even one, times u
RoundHalfEven(x, u) ==
  LET q == x \div u
      r == x % u
  IN IF 2 * r < u THEN q * u
     ELSE IF 2 * r > u THEN (q + 1) * u
     ELSE IF q % 2 = 0 THEN q * u ELSE (q + 1) * u

\* the double nearest to the real number h * 10^16 + l
RoundToDouble(h, l) ==
  IF h = 0 THEN Float(0, l) ELSE Float(h, RoundHalfEven(l, Ulp(Abs(h))))

\* a + b on floats
fadd(a, b) == RoundToDouble(a.hi + b.hi, a.lo + b.lo)

RECURSIVE ParseNat(_)
ParseNat(s) ==
  IF s = <<>> THEN 0
  ELSE 10 * ParseNat(SubSeq(s, 1, Len(s) - 1)) + DigitVal(s[Len(s)])

IsDigits(s) == s # <<>> /\ \A i \in 1..Len(s) : s[i] \in Digits

ValueError == [ok |-> FALSE, val |-> F0]

\* digits, or digits "e16": the unsigned literals of the input sets
ParseUnsigned(s) ==
  IF IsDigits(s) THEN [ok |-> TRUE, val |-> Float(0, ParseNat(s))]
  ELSE IF /\ Len(s) > 3
          /\ SubSeq(s, Len(s) - 2, Len(s)) = <<"e", "1", "6">>
          /\ IsDigits(SubSeq(s, 1, Len(s) - 3))
       THEN [ok |-> TRUE, val |-> Float(ParseNat(SubSeq(s, 1, Len(s) - 3)), 0)]
  ELSE ValueError

\* float(s) for a str: surrounding whitespace dropped, optional sign
ParseFloat(s) ==
  LET t == strip(s) IN
  IF t # <<>> /\ Head(t) = "-"
  THEN LET p == ParseUnsigned(Tail(t))
       IN IF p.ok THEN [ok |-> TRUE, val |-> Float(0 - p.val.hi, 0 - p.val.lo)]
          ELSE ValueError
  ELSE ParseUnsigned(t)

\* try: float(row.get(col, 0) or 0)  except ValueError: 0.0
\* (variant: the except branch falls back to 1.0)
CoerceDefaultOne(cell) ==
  IF ~Truthy(cell) THEN F0
  ELSE LET p == ParseFloat(cell) IN IF p.ok THEN p.val ELSE Float(0, 1)
Coerce(cell) ==
  IF ~Truthy(cell) THEN F0
  ELSE LET p == ParseFloat(cell) IN IF p.ok THEN p.val ELSE F0

\* ------------------------------------------------------------------ inputs
csv == <<".", "c", "s", "v">>

\* names that match glob("*.csv")
FileNames ==
  { <<"2", "0", "2", "4", "0", "1", "1", "5", "_", "a">> \o csv,
    <<"2", "0", "2", "4", "0", "1", "1", "5", "_", "b">> \o csv,
    <<"2", "0", "2", "3", "1", "2", "3", "1", "_", "z">> \o csv,
    <<"n", "o", "t", "e", "s">> \o csv,
    <<"2", "0", "2", "4", "0", "1", "1", "_", "a">> \o csv,
    <<"x", "2", "0", "2", "4", "0", "1", "1", "5", "_">> \o csv }

\* cells of a csv.DictReader row; None is a cell the row is too short for
ShipCells == {None, <<>>, <<" ">>, <<"A">>, <<" ", "A">>, <<"B">>}
RegionCells == {None, <<>>, <<" ">>, <<"E">>, <<"E", " ">>}
SleepCells == {None, <<"N", "/", "A">>, <<"6">>}
RestCells == {<<>>, <<"x">>, <<"1">>}

Row(s, g, h, v) ==
  [ship_type |-> s, region |-> g, sleep_hours |-> h, rest_violations |-> v]

\* every pair of category cells with good numbers, and every pair of numeric
\* cells with a good and with a missing category
Rows ==
  { Row(s, g, <<"6">>, <<"1">>) : s \in ShipCells, g \in RegionCells }
    \cup { Row(s, <<"E">>, h, v) : s \in {<<"A">>, None},
                                  h \in SleepCells, v \in RestCells }

\* ------------------------------------------------- extract_date_from_filename
\* re.match(r'(\d{4})(\d{2})(\d{2})_', filename): anchored at the start
\* (variant: re.search, the pattern found anywhere in the name)
MatchAnywhere(filename) ==
  \E k \in 0..Len(filename) :
    /\ Len(filename) >= k + 9
    /\ \A i \in (k + 1)..(k + 8) : filename[i] \in Digits
    /\ filename[k + 9] = "_"
Match(filename) ==
  /\ Len(filename) >= 9
  /\ \A i \in 1..8 : filename[i] \in Digits
  /\ filename[9] = "_"

extract_date_from_filename(filename) ==
  IF Match(filename)
  THEN LET year == SubSeq(filename, 1, 4)
           month == SubSeq(filename, 5, 6)
           day == SubSeq(filename, 7, 8)
       IN year \o <<"-">> \o month \o <<"-">> \o day
  ELSE None

\* ------------------------------------------------------------- accumulator
\* d.get(key, 0)
Get(d, key) == IF key \in DOMAIN d THEN d[key] ELSE 0

\* by_x[key] = by_x.get(key, 0) + 1
\* (variant: by_x[key] = 1)
TallySet(tally, key) ==
  [k \in DOMAIN tally \cup {key} |-> IF k = key THEN 1 ELSE tally[k]]
TallyInc(tally, key) ==
  [k \in DOMAIN tally \cup {key} |->
     IF k = key THEN Get(tally, key) + 1 ELSE tally[k]]

\* defaultdict(lambda: {"count": 0, "sleep_sum": 0.0, "rest_sum": 0.0})[date]
DailyGet(daily, date) ==
  IF date \in DOMAIN daily THEN daily[date]
  ELSE [count |-> 0, sleep_sum |-> F0, rest_sum |-> F0]

\* lines 67-69
\* (variant: the entry is assigned, not added to)
DailyAddOverwrite(daily, date, sleep, rest) ==
  [d \in DOMAIN daily \cup {date} |->
     IF d = date
     THEN [count |-> 1, sleep_sum |-> sleep, rest_sum |-> rest]
     ELSE daily[d]]
DailyAdd(daily, date, sleep, rest) ==
  LET old == DailyGet(daily, date) IN
  [d \in DOMAIN daily \cup {date} |->
     IF d = date
     THEN [count |-> old.count + 1,
           sleep_sum |-> fadd(old.sleep_sum, sleep),
           rest_sum |-> fadd(old.rest_sum, rest)]
     ELSE daily[d]]

\* line 50: not row.get('ship_type') or not row.get('region')
\* (variant: and in place of or)
IncompleteBoth(r) == ~Truthy(r.ship_type) /\ ~Truthy(r.region)
Incomplete(r) == ~Truthy(r.ship_type) \/ ~Truthy(r.region)

\* the body of "for row in reader" (lines 49-75) on the accumulator
Absorb(acc, r, date) ==
  IF Incomplete(r) THEN acc
  ELSE
    LET sleep == Coerce(r.sleep_hours)
        rest == Coerce(r.rest_violations)
        ship == strip(r.ship_type)
        region == strip(r.region)
    IN [totals |-> [submissions |-> acc.totals.submissions + 1],
        sums |-> [sleep |-> fadd(acc.sums.sleep, sleep),
                  rest |-> fadd(acc.sums.rest, rest)],
        daily_data |-> IF Truthy(date)
                       THEN DailyAdd(acc.daily_data, date, sleep, rest)
                       ELSE acc.daily_data,
        by_ship |-> TallyInc(acc.by_ship, ship),
        by_region |-> TallyInc(acc.by_region, region)]

\* --------------------------------------------------------------- finalizer
\* a rounded average: cents / 100 when the sum is below 10^16, else the
\* fraction num / den, a double that round(.., 2) leaves as it is
Avg(c, n, d) == [cents |-> c, num |-> n, den |-> d]
AvgZero == Avg(0, F0, 1)
ZeroDivisionError == Avg(0, F0, 0)

\* b^e mod m
RECURSIVE PowMod(_, _, _)
PowMod(b, e, m) == IF e = 0 THEN 1 % m ELSE (b * PowMod(b, e - 1, m)) % m

\* spacing, in sixteenths, of the doubles around (h * 10^16) / n: the
\* thresholds are 2^49 .. 2^56 over 10^16, times 10^7
QuotUlp(h, n) ==
  LET a == Abs(h) * 10000000 IN
  IF a < n * 562950 THEN 1 ELSE IF a < n * 1125900 THEN 2
  ELSE IF a < n * 2251800 THEN 4 ELSE IF a < n * 4503600 THEN 8
  ELSE IF a < n * 9007200 THEN 16 ELSE IF a < n * 18014399 THEN 32
  ELSE IF a < n * 36028797 THEN 64 ELSE IF a < n * 72057594 THEN 128
  ELSE 256

\* the double nearest to x / n for a float x of 10^16 or more, as the
\* fraction num / den with den = 16 * n
BigQuotient(x, n) ==
  LET M == QuotUlp(x.hi, n) * n
      H == 16 * x.hi
      L == 16 * x.lo
      r2 == (H * PowMod(10, 16, 2 * M) + L) % (2 * M)
      rho == r2 % M
      up == 2 * rho > M \/ (2 * rho = M /\ r2 >= M)
  IN Avg(0, Float(H, IF up THEN L + M - rho ELSE L - rho), 16 * n)

\* round(x / n, 2)
RoundedQuotient(x, n) ==
  IF n = 0 THEN ZeroDivisionError
  ELSE IF x.hi = 0 THEN Avg(RoundHalfEven(100 * x.lo, n) \div n, F0, 1)
  ELSE BigQuotient(x, n)

\* round(x / n, 2) if n else 0
\* (variant: no guard on the division)
AverageUnguarded(x, n) == RoundedQuotient(x, n)
Average(x, n) == IF n # 0 THEN RoundedQuotient(x, n) ELSE AvgZero

\* sorted(keys) for a set of str
\* (variant: sorted(keys, reverse=True))
RECURSIVE sorted_desc(_)
sorted_desc(S) ==
  IF S = {} THEN <<>>
  ELSE LET m == CHOOSE x \in S : \A y \in S \ {x} : StrLess(y, x)
       IN <<m>> \o sorted_desc(S \ {m})
RECURSIVE sorted(_)
sorted(S) ==
  IF S = {} THEN <<>>
  ELSE LET m == CHOOSE x \in S : \A y \in S \ {x} : StrLess(x, y)
       IN <<m>> \o sorted(S \ {m})

\* lines 84-92
Trends(daily) ==
  LET keys == sorted(DOMAIN daily) IN
  [i \in 1..Len(keys) |->
     LET data == daily[keys[i]] IN
     [date |-> keys[i],
      submissions |-> data.count,
      avgSleep |-> IF data.count > 0
                   THEN RoundedQuotient(data.sleep_sum, data.count) ELSE AvgZero,
      avgRestViolations |-> IF data.count > 0
                            THEN RoundedQuotient(data.rest_sum, data.count)
                            ELSE AvgZero]]

\* lines 78-101
Metrics(acc, clock) ==
  [totals |-> acc.totals,
   averages |-> [sleepHours |-> Average(acc.sums.sleep, acc.totals.submissions),
                 restViolations |-> Average(acc.sums.rest, acc.totals.submissions)],
   byShip |-> acc.by_ship,
   byRegion |-> acc.by_region,
   trends |-> Trends(acc.daily_data),
   updatedAt |-> clock]

Faulted(m) ==
  \/ m.averages.sleepHours.den = 0
  \/ m.averages.restViolations.den = 0
  \/ \E i \in 1..Len(m.trends) :
       m.trends[i].avgSleep.den = 0 \/ m.trends[i].avgRestViolations.den = 0

\* ------------------------------------------------------------------- state
VARIABLES
  pc,               \* "glob": between files; "read": inside "for row in reader";
                    \* "done": returned; "raised": left by an exception
  totals, sums, by_ship, by_region, daily_data,   \* lines 33-39
  csv_file,         \* name of the file of the current iteration
  submission_date,  \* line 44
  pos,              \* rows the reader has yielded from csv_file
  nread,            \* rows read in this run (bounds the run)
  globbed,          \* names glob() has yielded in this run
  metrics,          \* the returned dict
  error,            \* the exception that left the function, if any
  log,              \* per file of this run: what its rows were (history)
  dir,              \* the directory contents, where a run is repeated
  history           \* snapshots returned by earlier runs on dir

vars ==
  << pc, totals, sums, by_ship, by_region, daily_data, csv_file,
     submission_date, pos, nread, globbed, metrics, error, log, dir,
     history >>

acc ==
  [totals |-> totals, sums |-> sums, by_ship |-> by_ship,
   by_region |-> by_region, daily_data |-> daily_data]

\* a cell that is present and not blank
NonBlank(cell) == cell # None /\ \E i \in 1..Len(cell) : cell[i] # " "
\* a cell that is present and not the empty string
NonEmpty(cell) == cell # None /\ Len(cell) > 0

LogEntry(k, c) == [kept |-> k, complete |-> c]

\* the history of a file after one more row
Logged(e, r) ==
  LogEntry(e.kept + (IF NonEmpty(r.ship_type) /\ NonEmpty(r.region) THEN 1 ELSE 0),
           e.complete + (IF NonBlank(r.ship_type) /\ NonBlank(r.region) THEN 1 ELSE 0))

\* lines 33-39
Fresh ==
  /\ pc = "glob"
  /\ totals = [submissions |-> 0]
  /\ sums = [sleep |-> F0, rest |-> F0]
  /\ by_ship = <<>>
  /\ by_region = <<>>
  /\ daily_data = <<>>
  /\ csv_file = None
  /\ submission_date = None
  /\ pos = 0
  /\ nread = 0
  /\ globbed = {}
  /\ metrics = None
  /\ error = None
  /\ log = <<>>

Init == Fresh /\ dir = <<>> /\ history = <<>>

\* ----------------------------------------------------------------- actions
\* lines 42-47: glob yields name, its date is extracted, the file opens
OpenFile(name) ==
  /\ pc = "glob"
  /\ name \notin globbed
  /\ Cardinality(globbed) < MaxFiles
  /\ csv_file' = name
  /\ submission_date' = extract_date_from_filename(name)
  /\ globbed' = globbed \cup {name}
  /\ log' = [n \in globbed \cup {name} |->
               IF n = name THEN LogEntry(0, 0) ELSE log[n]]
  /\ pos' = 0
  /\ pc' = "read"
  /\ UNCHANGED << totals, sums, by_ship, by_region, daily_data, nread,
                  metrics, error, dir, history >>

\* lines 42-46: csv_file.open raises (OSError); nothing catches it
OpenFails(name) ==
  /\ pc = "glob"
  /\ name \notin globbed
  /\ Cardinality(globbed) < MaxFiles
  /\ csv_file' = name
  /\ submission_date' = extract_date_from_filename(name)
  /\ globbed' = globbed \cup {name}
  /\ log' = [n \in globbed \cup {name} |->
               IF n = name THEN LogEntry(0, 0) ELSE log[n]]
  /\ pos' = 0
  /\ pc' = "raised"
  /\ error' = "OSError"
  /\ UNCHANGED << totals, sums, by_ship, by_region, daily_data, nread,
                  metrics, dir, history >>

\* lines 48-75: the reader yields r and the loop body runs on it
ReadRow(r) ==
  /\ pc = "read"
  /\ pos' = pos + 1
  /\ nread' = nread + 1
  /\ LET a == Absorb(acc, r, submission_date) IN
       /\ totals' = a.totals
       /\ sums' = a.sums
       /\ by_ship' = a.by_ship
       /\ by_region' = a.by_region
       /\ daily_data' = a.daily_data
  /\ log' = [log EXCEPT ![csv_file] = Logged(@, r)]
  /\ UNCHANGED << pc, csv_file, submission_date, globbed, metrics, error, dir,
                  history >>

\* line 48: the reader raises (UnicodeDecodeError, csv.Error); the with block
\* closes the file and the exception leaves aggregate_submissions
DecodeFails ==
  /\ pc = "read"
  /\ pc' = "raised"
  /\ error' = "UnicodeDecodeError"
  /\ UNCHANGED << totals, sums, by_ship, by_region, daily_data, csv_file,
                  submission_date, pos, nread, globbed, metrics, log, dir,
                  history >>

\* line 48: the reader is exhausted
EndOfFile ==
  /\ pc = "read"
  /\ pc' = "glob"
  /\ UNCHANGED << totals, sums, by_ship, by_region, daily_data, csv_file,
                  submission_date, pos, nread, globbed, metrics, error, log,
                  dir, history >>

\* lines 77-102: glob is exhausted
Finalize ==
  /\ pc = "glob"
  /\ LET m == Metrics(acc, Len(history)) IN
       IF Faulted(m)
       THEN pc' = "raised" /\ error' = "ZeroDivisionError" /\ metrics' = metrics
       ELSE pc' = "done" /\ error' = error /\ metrics' = m
  /\ UNCHANGED << totals, sums, by_ship, by_region, daily_data, csv_file,
                  submission_date, pos, nread, globbed, log, dir, history >>

\* the reader yields some row
ReadAnyRow ==
  /\ nread < MaxRows
  /\ \E r \in Rows : ReadRow(r)

Next ==
  \/ \E name \in FileNames : OpenFile(name)
  \/ \E name \in FileNames : OpenFails(name)
  \/ ReadAnyRow
  \/ DecodeFails
  \/ EndOfFile
  \/ Finalize

Spec == Init /\ [][Next]_vars

\* ------------------------------------------- two runs on one directory
\* the sum of f over S
RECURSIVE SumOver(_, _)
SumOver(f, S) ==
  IF S = {} THEN 0
  ELSE LET x == CHOOSE y \in S : TRUE IN f[x] + SumOver(f, S \ {x})

RunNames ==
  { <<"2", "0", "2", "4", "0", "1", "1", "5", "_", "a">> \o csv,
    <<"n", "o", "t", "e", "s">> \o csv }

RunSleepCells == {<<"1", "e", "1", "6">>, <<"-", "1", "e", "1", "6">>, <<"1">>}

RunRows == { Row(<<"A">>, <<"E">>, h, <<"1">>) : h \in RunSleepCells }

RowSeqs == UNION { [1..k -> RunRows] : k \in 0..MaxDirRows }

\* the directories: some of RunNames, with up to MaxDirRows rows in all
Dirs ==
  { d \in UNION { [N -> RowSeqs] : N \in SUBSET RunNames } :
      SumOver([n \in DOMAIN d |-> Len(d[n])], DOMAIN d) <= MaxDirRows }

InitRuns == Fresh /\ dir \in Dirs /\ history = <<>>

\* the reader yields the next row of the open file
ReadDirRow ==
  /\ pc = "read"
  /\ pos < Len(dir[csv_file])
  /\ ReadRow(dir[csv_file][pos + 1])

EndOfDirFile ==
  /\ pc = "read"
  /\ pos = Len(dir[csv_file])
  /\ EndOfFile

\* glob has yielded every file of the directory, in some order
FinalizeDir ==
  /\ globbed = DOMAIN dir
  /\ Finalize

\* main() is invoked again on the unchanged directory
Rerun ==
  /\ pc = "done"
  /\ history = <<>>
  /\ history' = <<metrics>>
  /\ pc' = "glob"
  /\ totals' = [submissions |-> 0]
  /\ sums' = [sleep |-> F0, rest |-> F0]
  /\ by_ship' = <<>>
  /\ by_region' = <<>>
  /\ daily_data' = <<>>
  /\ csv_file' = None
  /\ submission_date' = None
  /\ pos' = 0
  /\ nread' = 0
  /\ globbed' = {}
  /\ metrics' = None
  /\ error' = None
  /\ log' = <<>>
  /\ UNCHANGED dir

NextRuns ==
  \/ \E name \in DOMAIN dir : OpenFile(name)
  \/ ReadDirRow
  \/ EndOfDirFile
  \/ FinalizeDir
  \/ Rerun

SpecRuns == InitRuns /\ [][NextRuns]_vars

\* ================================================================= claims
\* what the claims speak of, stated on the inputs rather than by the code

SumOf(f) == SumOver(f, DOMAIN f)

\* the name starts with 8 digits followed by an underscore
HasDatePrefix(name) ==
  /\ Len(name) > 8
  /\ SubSeq(name, 1, 8) \in [1..8 -> Digits]
  /\ name[9] = "_"

\* d is YYYY-MM-DD and its digits are the first 8 characters of name
IsDateOf(d, name) ==
  /\ Len(d) = 10
  /\ d[5] = "-" /\ d[8] = "-"
  /\ << d[1], d[2], d[3], d[4], d[6], d[7], d[9], d[10] >> = SubSeq(name, 1, 8)

KeptRows == SumOver([n \in globbed |-> log[n].kept], globbed)
CompleteRows == SumOver([n \in globbed |-> log[n].complete], globbed)

SumTrends(m) == SumOver([i \in 1..Len(m.trends) |-> m.trends[i].submissions],
                        1..Len(m.trends))

\* a numeric cell that is missing or is no number
BadNumber(cell) == cell \in {None, <<>>} \/ \E i \in 1..Len(cell) : cell[i] \notin Digits
\* the value of a numeric cell of digits
NumberOf(cell) == IF BadNumber(cell) THEN F0 ELSE Float(0, ParseNat(cell))

\* the rows C8 speaks of: both categories, a bad number
BadNumberRows ==
  { r \in Rows : /\ NonEmpty(r.ship_type) /\ NonEmpty(r.region)
                 /\ BadNumber(r.sleep_hours) \/ BadNumber(r.rest_violations) }

\* the rows C10 speaks of: a category empty or absent
IncompleteRows == { r \in Rows : ~NonEmpty(r.ship_type) \/ ~NonEmpty(r.region) }

ZeroSnapshot(m) ==
  /\ m.totals.submissions = 0
  /\ m.averages.sleepHours = AvgZero
  /\ m.averages.restViolations = AvgZero
  /\ DOMAIN m.byShip = {}
  /\ DOMAIN m.byRegion = {}
  /\ Len(m.trends) = 0

\* C1: the returned totals.submissions is the number of rows, over all files,
\* whose ship_type and region are both non-empty after trimming whitespace.
C1_SubmissionsCountCompleteRows ==
  pc = "done" => metrics.totals.submissions = CompleteRows

\* C2: a file that cannot be opened or decoded is skipped and the run goes on
\* to a snapshot: no file error ever leaves aggregate_submissions.
C2_BadFileIsSkipped ==
  pc = "raised" => error \notin {"OSError", "UnicodeDecodeError"}

\* C3: after any sequence of folded rows, the byShip counts and the byRegion
\* counts each add up to totals.submissions, which is the number of rows that
\* passed the sanity check: a counted row adds one to one entry of each tally,
\* an uncounted row adds nothing.
C3_TalliesSumToSubmissions ==
  /\ SumOf(by_ship) = totals.submissions
  /\ SumOf(by_region) = totals.submissions
  /\ totals.submissions = KeptRows
  /\ pc = "done" =>
       /\ SumOf(metrics.byShip) = metrics.totals.submissions
       /\ SumOf(metrics.byRegion) = metrics.totals.submissions

C3_Witness ==
  /\ pc = "done"
  /\ metrics.totals.submissions = 2
  /\ DOMAIN metrics.byShip = {<<"A">>, <<"B">>}
  /\ DOMAIN metrics.byRegion = {<<"E">>}
  /\ Cardinality(globbed) = 2

\* C4 as stated: in every snapshot the trend submissions add up to at most
\* totals.submissions, with equality exactly when every input file's name has
\* a YYYYMMDD_ prefix.
C4_EqualIffEveryFileDated ==
  pc = "done" =>
    /\ SumTrends(metrics) <= metrics.totals.submissions
    /\ SumTrends(metrics) = metrics.totals.submissions
         <=> \A n \in globbed : HasDatePrefix(n)

\* C4 amended: in every snapshot the trend submissions add up to at most
\* totals.submissions, with equality exactly when every input file that
\* contributed a counted row has a YYYYMMDD_ prefix.
C4_EqualIffEveryCountedFileDated ==
  pc = "done" =>
    /\ SumTrends(metrics) <= metrics.totals.submissions
    /\ SumTrends(metrics) = metrics.totals.submissions
         <=> \A n \in globbed : log[n].kept > 0 => HasDatePrefix(n)

C4_Witness ==
  /\ pc = "done"
  /\ nread = 2
  /\ metrics.totals.submissions = 1
  /\ SumTrends(metrics) = 1
  /\ \E n \in globbed : ~HasDatePrefix(n)

\* C5: the trends of a snapshot have one entry per date of a file that
\* contributed a counted row, in strictly ascending date order, and an entry's
\* submissions is the number of counted rows of all files with that date.
C5_TrendsPerDateAscending ==
  pc = "done" =>
    LET T == metrics.trends
        dated == {n \in globbed : HasDatePrefix(n) /\ log[n].kept > 0}
    IN /\ {T[i].date : i \in 1..Len(T)}
            = {extract_date_from_filename(n) : n \in dated}
       /\ Len(T) = Cardinality({extract_date_from_filename(n) : n \in dated})
       /\ \A i, j \in 1..Len(T) : i < j => StrLess(T[i].date, T[j].date)
       /\ \A i \in 1..Len(T) :
            LET same == {n \in dated : extract_date_from_filename(n) = T[i].date}
            IN T[i].submissions = SumOver([n \in same |-> log[n].kept], same)

C5_Witness ==
  /\ pc = "done"
  /\ Len(metrics.trends) = 2
  /\ metrics.trends[1].submissions = 1
  /\ metrics.trends[2].submissions = 1

\* C6: a second run on the unchanged directory returns the same totals,
\* averages, byShip, byRegion and trends as the first, whatever order glob
\* yields the files in.
C6_RerunSameOutput ==
  (pc = "done" /\ Len(history) = 1) =>
    /\ metrics.totals = history[1].totals
    /\ metrics.averages = history[1].averages
    /\ metrics.byShip = history[1].byShip
    /\ metrics.byRegion = history[1].byRegion
    /\ metrics.trends = history[1].trends

\* C7: extract_date_from_filename gives YYYY-MM-DD from the first 8 characters
\* exactly when the name starts with 8 digits and an underscore, else None,
\* which is no date string; the caller keeps no daily entry for a file
\* without a date.
C7_DateExactlyOnPrefix ==
  /\ \A n \in globbed :
       IF HasDatePrefix(n)
       THEN IsDateOf(extract_date_from_filename(n), n)
       ELSE extract_date_from_filename(n) = None
  /\ \A n \in FileNames : ~IsDateOf(None, n)
  /\ csv_file # None => submission_date = extract_date_from_filename(csv_file)
  /\ \A d \in DOMAIN daily_data :
       \E n \in globbed : HasDatePrefix(n) /\ log[n].kept > 0 /\ IsDateOf(d, n)

C7_Witness ==
  /\ pc = "glob"
  /\ \E n \in globbed : ~HasDatePrefix(n) /\ log[n].kept = 1
  /\ \E n \in globbed : HasDatePrefix(n) /\ log[n].kept = 1
  /\ Cardinality(DOMAIN daily_data) = 1

\* C8: a row with both categories whose sleep_hours or rest_violations is
\* missing or no number is kept: submissions and both tallies grow by one,
\* the bad field adds 0 and the other its value to the running sums and to the
\* date's sums, the date's count grows by one, and the fold stays in the file.
C8_BadNumberKeepsRow ==
  [][ \A r \in BadNumberRows :
        ReadRow(r)
        =>
        /\ totals'.submissions = totals.submissions + 1
        /\ SumOf(by_ship') = SumOf(by_ship) + 1
        /\ SumOf(by_region') = SumOf(by_region) + 1
        /\ sums'.sleep = fadd(sums.sleep, NumberOf(r.sleep_hours))
        /\ sums'.rest = fadd(sums.rest, NumberOf(r.rest_violations))
        /\ IF HasDatePrefix(csv_file)
           THEN LET old == DailyGet(daily_data, submission_date)
                    new == daily_data'[submission_date]
                IN /\ new.count = old.count + 1
                   /\ new.sleep_sum = fadd(old.sleep_sum, NumberOf(r.sleep_hours))
                   /\ new.rest_sum = fadd(old.rest_sum, NumberOf(r.rest_violations))
           ELSE daily_data' = daily_data
        /\ pc' = "read"
    ]_vars

C8_Witness ==
  /\ pc = "read"
  /\ pos = 2
  /\ log[csv_file].kept = 2
  /\ totals.submissions = 2
  /\ sums.sleep = F0
  /\ sums.rest = Float(0, 2)
  /\ HasDatePrefix(csv_file)
  /\ daily_data[submission_date].count = 2

\* C9: a run that ends with no counted row raises no division fault and
\* returns the zero-valued snapshot.
C9_NoRowsZeroSnapshot ==
  /\ error # "ZeroDivisionError"
  /\ (pc = "done" /\ KeptRows = 0) => ZeroSnapshot(metrics)

C9_Witness ==
  /\ pc = "done"
  /\ KeptRows = 0
  /\ nread = 2
  /\ Cardinality(globbed) = 2
  /\ \E n \in globbed : HasDatePrefix(n)

\* C10: absorbing a row whose ship_type or region is empty or absent changes
\* nothing of the accumulator, whatever its numeric cells and its file's date.
C10_IncompleteRowNoOp ==
  [][ \A r \in IncompleteRows :
        ReadRow(r) => UNCHANGED << totals, sums, by_ship, by_region, daily_data >>
    ]_vars

C10_Witness ==
  /\ pc = "read"
  /\ pos = 2
  /\ log[csv_file].kept = 1
  /\ HasDatePrefix(csv_file)
  /\ totals.submissions = 1
  /\ daily_data[submission_date].count = 1
====
